---------------------------- MODULE Spec2Model ----------------------------
(***************************************************************************)
(* A model of waiting_period_script.py: one run of                         *)
(* WaitingPeriodExtractor.run(), from the state left by __init__ (logging  *)
(* set up, configuration loaded) to the end of the process.                *)
(*                                                                         *)
(* The run is sequential.  pc is the position of run(); every action is    *)
(* one call made by run() under one outcome of the external calls it       *)
(* makes.  An external call is modelled as able to fail when the script    *)
(* itself handles its failure somewhere (Transport/connect, sftp.get,      *)
(* os.remove) or when it talks to the network or the file system without   *)
(* any handler (listdir, stat, ZipFile, open, ExcelWriter, smtplib).  An   *)
(* exception nobody catches ends the interpreter with a traceback and      *)
(* exit code 1.                                                            *)
(*                                                                         *)
(* Text is a sequence of one-character strings, so that slicing and        *)
(* strip() are computed rather than assumed.                               *)
(***************************************************************************)
EXTENDS Integers, Sequences, FiniteSets, TLC

VARIABLES
    pc,                 \* position in run(): the call that comes next
    status,             \* "running", or how the process ended
    sftpOpen,           \* the SFTPClient channel is open
    transportOpen,      \* the paramiko Transport (socket) is open
    listing,            \* sftp.listdir(remote_folder), as returned
    latest_zip,         \* index in listing of the selected entry, 0 = none
    zipExists,          \* local_zip_path exists on disk
    flatExists,         \* flatfile_path exists on disk
    flatfile,           \* the lines of the extracted flat file
    beneficiaries,      \* first result of parse_flatfile
    underwriting_rules, \* second result of parse_flatfile
    xlsx,               \* Waiting_Period_Extract.xlsx as written by this run
    xlsx_writes,        \* number of times this run opened the ExcelWriter
    mail,               \* every message handed to smtplib, in order
    error_message,      \* self.error_message
    raised,             \* text of the last exception raised in the run
    log                 \* the messages passed to self.log, in order

vars == << pc, status, sftpOpen, transportOpen, listing, latest_zip, zipExists,
           flatExists, flatfile, beneficiaries, underwriting_rules, xlsx,
           xlsx_writes, mail, error_message, raised, log >>

-----------------------------------------------------------------------------
(* Bounds of the model *)

MaxListing == 3
MaxMtime == 2
MaxLines == 3

-----------------------------------------------------------------------------
(* Text: slicing and strip() *)

Min(a, b) == IF a < b THEN a ELSE b

Whitespace == {" ", "\n"}

\* line[a:b] of Python: the characters at 0-based indices a .. b-1 that exist
Slice(line, a, b) == SubSeq(line, a + 1, Min(b, Len(line)))

RECURSIVE LStrip(_)
LStrip(s) == IF s # << >> /\ Head(s) \in Whitespace THEN LStrip(Tail(s)) ELSE s

RECURSIVE RStrip(_)
RStrip(s) ==
    IF s # << >> /\ s[Len(s)] \in Whitespace
    THEN RStrip(SubSeq(s, 1, Len(s) - 1))
    ELSE s

\* str.strip()
Strip(s) == RStrip(LStrip(s))

\* line[a:b].strip()
Field(line, a, b) == Strip(Slice(line, a, b))


\* line[i] of Python (0-based)
CharAt(line, i) == line[i + 1]

-----------------------------------------------------------------------------
(* parse_flatfile *)

\* the dict appended for a line whose record_type is '2'
BeneficiaryRecord(line) ==
    [ sequenceNumber       |-> Field(line, 0, 9),
      memberNo             |-> Field(line, 10, 19),
      beneficiaryCode      |-> Field(line, 19, 21),
      firstName            |-> Field(line, 21, 45),
      surname              |-> Field(line, 45, 69),
      initials             |-> Field(line, 69, 73),
      dateOfBirth          |-> Field(line, 73, 81),
      identificationNumber |-> Field(line, 81, 97) ]

\* the dict appended for a line whose record_type is '3'
UnderwritingRuleRecord(line) ==
    [ sequenceNumber       |-> Field(line, 0, 9),
      memberNo             |-> Field(line, 10, 19),
      beneficiaryCode      |-> Field(line, 19, 21),
      underwritingRuleType |-> Field(line, 21, 25),
      underwritingRuleCode |-> Field(line, 25, 33),
      startDate            |-> Field(line, 33, 41),
      endDate              |-> Field(line, 41, 49),
      narrative            |-> Field(line, 49, 229),
      referenceNo          |-> Field(line, 229, 247) ]

\* parse_line with the slice bounds guarded: a line too short for its record
\* shape is skipped
parse_line_guarded(line, b, u) ==
    IF Len(line) < 10 THEN << b, u >>
    ELSE LET record_type == CharAt(line, 9) IN
         IF record_type = "2" /\ Len(line) >= 97
         THEN << Append(b, BeneficiaryRecord(line)), u >>
         ELSE IF record_type = "3" /\ Len(line) >= 247
         THEN << b, Append(u, UnderwritingRuleRecord(line)) >>
         ELSE << b, u >>

\* parse_line with the records inserted at the front of the lists
parse_line_prepend(line, b, u) ==
    IF Len(line) < 10 THEN << b, u >>
    ELSE LET record_type == CharAt(line, 9) IN
         IF record_type = "2"
         THEN << << BeneficiaryRecord(line) >> \o b, u >>
         ELSE IF record_type = "3"
         THEN << b, << UnderwritingRuleRecord(line) >> \o u >>
         ELSE << b, u >>

\* the body of the loop of parse_flatfile: one line, the two lists so far
parse_line(line, b, u) ==
    IF Len(line) < 10 THEN << b, u >>
    ELSE LET record_type == CharAt(line, 9) IN
         IF record_type = "2"
         THEN << Append(b, BeneficiaryRecord(line)), u >>
         ELSE IF record_type = "3"
         THEN << b, Append(u, UnderwritingRuleRecord(line)) >>
         ELSE << b, u >>

RECURSIVE parse_loop(_, _, _)
parse_loop(lines, b, u) ==
    IF lines = << >> THEN << b, u >>
    ELSE LET r == parse_line(Head(lines), b, u)
         IN  parse_loop(Tail(lines), r[1], r[2])

\* parse_flatfile on a file that opened: << beneficiaries, underwriting_rules >>
parse_flatfile(lines) == parse_loop(lines, << >>, << >>)

-----------------------------------------------------------------------------
(* Input lines.  Iterating a text file yields each line with its "\n",     *)
(* except a last line the file does not terminate.                         *)

Letters == << "a", "b", "c" >>

\* the character at 0-based column i of a generated line
Fill(i) == IF i % 5 \in {0, 4} THEN " " ELSE Letters[(i % 3) + 1]

\* a line of n columns with d in column 9, terminated by "\n" iff nl
Line(n, d, nl) ==
    [ i \in 1..n |-> IF i = 10 THEN d ELSE Fill(i - 1) ]
        \o (IF nl THEN << "\n" >> ELSE << >>)

\* columns n: a header/trailer line (3); a line whose index 9 is its own
\* "\n" (9); lines too short for either shape (10, 40); exactly shape '2'
\* and too short for shape '3' (96 + "\n"); one short of shape '3' (245);
\* exactly shape '3' (246 + "\n"); and two last lines without "\n"
LineSet ==
    { Line(n, d, TRUE) : n \in {3, 9, 10, 246}, d \in {"1", "2", "3"} }
        \cup { Line(n, d, TRUE) : n \in {40, 96, 245}, d \in {"2", "3"} }
        \cup { Line(97, "2", FALSE), Line(10, "3", FALSE) }

RECURSIVE SeqsUpTo(_, _)
SeqsUpTo(S, n) ==
    IF n = 0 THEN { << >> }
    ELSE LET shorter == SeqsUpTo(S, n - 1)
         IN  shorter \cup { Append(s, x) : s \in { t \in shorter : Len(t) = n - 1 }, x \in S }


\* sample flat files of the full run: empty, header only, one of each
\* shape, and records mixed with short and foreign lines
RunFiles ==
    { << >>,
      << Line(3, "1", TRUE) >>,
      << Line(96, "2", TRUE), Line(246, "3", TRUE) >>,
      << Line(96, "2", TRUE), Line(40, "2", TRUE), Line(246, "1", TRUE),
         Line(245, "3", TRUE), Line(97, "2", FALSE) >> }

-----------------------------------------------------------------------------
(* The remote listing and the selection of the latest archive *)

\* an entry of sftp.listdir: whether its name ends with '.zip', and the
\* st_mtime sftp.stat reports for it; the entry's name is its index
Entries == [ zip : BOOLEAN, mtime : 1..MaxMtime ]

Listings == SeqsUpTo(Entries, MaxListing)

\* [f for f in sftp.listdir(...) if f.endswith('.zip')], as indices of l
zip_files(l) == SelectSeq([ i \in 1..Len(l) |-> i ], LAMBDA i : l[i].zip)

\* max() that keeps the last of several maximal entries
RECURSIVE max_loop_last(_, _, _)
max_loop_last(rest, best, l) ==
    IF rest = << >> THEN best
    ELSE max_loop_last(Tail(rest),
                       IF l[Head(rest)].mtime >= l[best].mtime THEN Head(rest) ELSE best,
                       l)

\* the loop of Python's max(iterable, key=...): an item replaces the best
\* so far only when its key is strictly greater
RECURSIVE max_loop(_, _, _)
max_loop(rest, best, l) ==
    IF rest = << >> THEN best
    ELSE max_loop(Tail(rest),
                  IF l[Head(rest)].mtime > l[best].mtime THEN Head(rest) ELSE best,
                  l)

\* max(zip_files, key=lambda x: sftp.stat(...).st_mtime), zip_files not empty
select_latest(l) == max_loop(Tail(zip_files(l)), Head(zip_files(l)), l)

-----------------------------------------------------------------------------
(* Notifications *)

\* Send_Email.email_err: the body carries self.error_message; delivered
\* tells whether the SMTP exchange went through
email_err(m, em, delivered) ==
    Append(m, [ kind |-> "failure", text |-> em, delivered |-> delivered ])

\* Send_Email.email
email(m, delivered) ==
    Append(m, [ kind |-> "success", text |-> "", delivered |-> delivered ])

\* the exit code of the process for each way it ends: sys.exit(n) gives n,
\* falling off the end of the script gives 0, an uncaught exception gives 1
exit_code(st) == IF st \in {"sys.exit(0)", "returned"} THEN 0 ELSE 1

-----------------------------------------------------------------------------
(* The state after WaitingPeriodExtractor(config_path, log_path) *)

Init ==
    /\ pc = "connect_sftp"
    /\ status = "running"
    /\ sftpOpen = FALSE
    /\ transportOpen = FALSE
    /\ listing = << >>
    /\ latest_zip = 0
    /\ zipExists = FALSE
    /\ flatExists = FALSE
    /\ flatfile = << >>
    /\ beneficiaries = << >>
    /\ underwriting_rules = << >>
    /\ xlsx = << >>
    /\ xlsx_writes = 0
    /\ mail = << >>
    /\ error_message = "None"
    /\ raised = "None"
    /\ log = << >>

-----------------------------------------------------------------------------
(* connect_sftp *)

connect_sftp_ok ==
    /\ pc = "connect_sftp"
    /\ transportOpen' = TRUE
    /\ sftpOpen' = TRUE
    /\ log' = Append(log, "Connected to SFTP successfully.")
    /\ pc' = "download_latest_zip"
    /\ UNCHANGED << status, listing, latest_zip, zipExists, flatExists, flatfile,
                    beneficiaries, underwriting_rules, xlsx, xlsx_writes, mail,
                    error_message, raised >>

\* Transport(), transport.connect or from_transport raises; a transport that
\* was already constructed is not closed by the handler
connect_sftp_fail ==
    /\ pc = "connect_sftp"
    /\ \E socket \in BOOLEAN, delivered \in BOOLEAN :
        /\ transportOpen' = socket
        /\ log' = Append(log, "SFTP Connection failed")
        /\ error_message' = "connect"
        /\ raised' = "connect"
        /\ mail' = email_err(mail, error_message', delivered)
        /\ status' = IF delivered THEN "sys.exit(1)" ELSE "exception"
    /\ pc' = "done"
    /\ UNCHANGED << sftpOpen, listing, latest_zip, zipExists, flatExists, flatfile,
                    beneficiaries, underwriting_rules, xlsx, xlsx_writes >>

-----------------------------------------------------------------------------
(* download_latest_zip *)

\* sftp.listdir raises: nothing catches it
download_listdir_fail ==
    /\ pc = "download_latest_zip"
    /\ raised' = "listdir"
    /\ status' = "exception"
    /\ pc' = "done"
    /\ UNCHANGED << sftpOpen, transportOpen, listing, latest_zip, zipExists,
                    flatExists, flatfile, beneficiaries, underwriting_rules, xlsx,
                    xlsx_writes, mail, error_message, log >>

download_no_zip ==
    /\ pc = "download_latest_zip"
    /\ \E l \in Listings :
        /\ zip_files(l) = << >>
        /\ listing' = l
    /\ log' = Append(log, "No zip files found in remote /outbox folder.")
    /\ sftpOpen' = FALSE
    /\ status' = "sys.exit(0)"
    /\ pc' = "done"
    /\ UNCHANGED << transportOpen, latest_zip, zipExists, flatExists, flatfile,
                    beneficiaries, underwriting_rules, xlsx, xlsx_writes, mail,
                    error_message, raised >>

\* sftp.stat raises inside the key function of max(): nothing catches it
download_stat_fail ==
    /\ pc = "download_latest_zip"
    /\ \E l \in Listings :
        /\ zip_files(l) # << >>
        /\ listing' = l
    /\ raised' = "stat"
    /\ status' = "exception"
    /\ pc' = "done"
    /\ UNCHANGED << sftpOpen, transportOpen, latest_zip, zipExists, flatExists,
                    flatfile, beneficiaries, underwriting_rules, xlsx, xlsx_writes,
                    mail, error_message, log >>

\* sftp.get raises: the handler logs, notifies, closes the SFTP client and
\* exits with 1; a failing notification is not caught.  The archive counts
\* as not downloaded.
download_get_fail ==
    /\ pc = "download_latest_zip"
    /\ \E l \in Listings, delivered \in BOOLEAN :
        /\ zip_files(l) # << >>
        /\ listing' = l
        /\ latest_zip' = select_latest(l)
        /\ error_message' = "get"
        /\ raised' = "get"
        /\ mail' = email_err(mail, error_message', delivered)
        /\ sftpOpen' = IF delivered THEN FALSE ELSE sftpOpen
        /\ status' = IF delivered THEN "sys.exit(1)" ELSE "exception"
    /\ log' = log \o << "Latest ZIP file detected", "Failed to download ZIP" >>
    /\ pc' = "done"
    /\ UNCHANGED << transportOpen, zipExists, flatExists, flatfile,
                    beneficiaries, underwriting_rules, xlsx, xlsx_writes >>

download_ok ==
    /\ pc = "download_latest_zip"
    /\ \E l \in Listings :
        /\ zip_files(l) # << >>
        /\ listing' = l
        /\ latest_zip' = select_latest(l)
    /\ zipExists' = TRUE
    /\ log' = log \o << "Latest ZIP file detected", "Downloaded ZIP" >>
    /\ pc' = "close"
    /\ UNCHANGED << status, sftpOpen, transportOpen, flatExists, flatfile,
                    beneficiaries, underwriting_rules, xlsx, xlsx_writes, mail,
                    error_message, raised >>

\* run(): sftp.close(); transport.close()
close_session ==
    /\ pc = "close"
    /\ sftpOpen' = FALSE
    /\ transportOpen' = FALSE
    /\ pc' = "extract_zip"
    /\ UNCHANGED << status, listing, latest_zip, zipExists, flatExists, flatfile,
                    beneficiaries, underwriting_rules, xlsx, xlsx_writes, mail,
                    error_message, raised, log >>

-----------------------------------------------------------------------------
(* extract_zip *)

\* ZipFile() or extractall raises (not an archive, disk full): nothing
\* catches it; entries extracted before the failure stay on disk
extract_zip_fail ==
    /\ pc = "extract_zip"
    /\ \E extracted \in BOOLEAN : flatExists' = extracted
    /\ raised' = "zipfile"
    /\ status' = "exception"
    /\ pc' = "done"
    /\ UNCHANGED << sftpOpen, transportOpen, listing, latest_zip, zipExists,
                    flatfile, beneficiaries, underwriting_rules, xlsx, xlsx_writes,
                    mail, error_message, log >>

\* no entry ends with '.txt': os.remove(zip_path), which may raise, then
\* sys.exit(0)
extract_zip_no_txt ==
    /\ pc = "extract_zip"
    /\ log' = Append(log, "No flat file (.txt) found inside the ZIP.")
    /\ \E removed \in BOOLEAN :
        /\ zipExists' = ~removed
        /\ raised' = IF removed THEN raised ELSE "remove"
        /\ status' = IF removed THEN "sys.exit(0)" ELSE "exception"
    /\ pc' = "done"
    /\ UNCHANGED << sftpOpen, transportOpen, listing, latest_zip, flatExists,
                    flatfile, beneficiaries, underwriting_rules, xlsx, xlsx_writes,
                    mail, error_message >>

extract_zip_ok ==
    /\ pc = "extract_zip"
    /\ \E f \in RunFiles : flatfile' = f
    /\ flatExists' = TRUE
    /\ log' = Append(log, "Flat file extracted")
    /\ pc' = "parse_flatfile"
    /\ UNCHANGED << status, sftpOpen, transportOpen, listing, latest_zip,
                    zipExists, beneficiaries, underwriting_rules, xlsx,
                    xlsx_writes, mail, error_message, raised >>

-----------------------------------------------------------------------------
(* parse_flatfile *)

\* open() or the decoding of a line raises: nothing catches it
parse_flatfile_fail ==
    /\ pc = "parse_flatfile"
    /\ raised' = "open"
    /\ status' = "exception"
    /\ pc' = "done"
    /\ UNCHANGED << sftpOpen, transportOpen, listing, latest_zip, zipExists,
                    flatExists, flatfile, beneficiaries, underwriting_rules, xlsx,
                    xlsx_writes, mail, error_message, log >>

parse_flatfile_ok ==
    /\ pc = "parse_flatfile"
    /\ beneficiaries' = parse_flatfile(flatfile)[1]
    /\ underwriting_rules' = parse_flatfile(flatfile)[2]
    /\ pc' = "save_to_excel"
    /\ UNCHANGED << status, sftpOpen, transportOpen, listing, latest_zip,
                    zipExists, flatExists, flatfile, xlsx, xlsx_writes, mail,
                    error_message, raised, log >>

-----------------------------------------------------------------------------
(* save_to_excel *)

\* the sheets of the workbook: a sheet is written only for a non-empty list
Workbook(b, u) ==
    { [ sheet |-> "beneficiaries_flatfile", rows |-> b ] : x \in IF b # << >> THEN {1} ELSE {} }
        \cup
    { [ sheet |-> "underwriting_rules_flatfile", rows |-> u ] : x \in IF u # << >> THEN {1} ELSE {} }

\* the writer raises (no sheet to save, file locked, disk full): nothing
\* catches it; the file may have been created with what was written so far
save_to_excel_fail ==
    /\ pc = "save_to_excel"
    /\ xlsx_writes' = xlsx_writes + 1
    /\ xlsx' \in { xlsx, << Workbook(beneficiaries, << >>) >> }
    /\ raised' = "excel"
    /\ status' = "exception"
    /\ pc' = "done"
    /\ UNCHANGED << sftpOpen, transportOpen, listing, latest_zip, zipExists,
                    flatExists, flatfile, beneficiaries, underwriting_rules, mail,
                    error_message, log >>

save_to_excel_ok ==
    /\ pc = "save_to_excel"
    /\ xlsx_writes' = xlsx_writes + 1
    /\ xlsx' = << Workbook(beneficiaries, underwriting_rules) >>
    /\ log' = Append(log, "Extracted Type 2 and 3 datasets saved")
    /\ pc' = "cleanup"
    /\ UNCHANGED << status, sftpOpen, transportOpen, listing, latest_zip,
                    zipExists, flatExists, flatfile, beneficiaries,
                    underwriting_rules, mail, error_message, raised >>

-----------------------------------------------------------------------------
(* cleanup *)

cleanup_ok ==
    /\ pc = "cleanup"
    /\ zipExists' = FALSE
    /\ flatExists' = FALSE
    /\ log' = Append(log, "Temporary files cleaned up.")
    /\ pc' = "email"
    /\ UNCHANGED << status, sftpOpen, transportOpen, listing, latest_zip,
                    flatfile, beneficiaries, underwriting_rules, xlsx, xlsx_writes,
                    mail, error_message, raised >>

\* the first (which = 1) or the second (which = 2) os.remove raises: the
\* handler logs, notifies and returns; a failing notification is not caught
cleanup_fail ==
    /\ pc = "cleanup"
    /\ \E which \in {1, 2}, delivered \in BOOLEAN :
        /\ zipExists' = IF which = 1 THEN zipExists ELSE FALSE
        /\ log' = Append(log, "Cleanup warning")
        /\ error_message' = "remove"
        /\ raised' = "remove"
        /\ mail' = email_err(mail, error_message', delivered)
        /\ status' = IF delivered THEN status ELSE "exception"
        /\ pc' = IF delivered THEN "email" ELSE "done"
    /\ UNCHANGED << sftpOpen, transportOpen, listing, latest_zip, flatExists,
                    flatfile, beneficiaries, underwriting_rules, xlsx, xlsx_writes >>

-----------------------------------------------------------------------------
(* the end of run() *)

\* run() with the success notification sent a second time
notify_success_twice ==
    /\ pc = "email"
    /\ log' = Append(log, "Process completed successfully.")
    /\ \E delivered \in BOOLEAN :
        /\ mail' = email(email(mail, delivered), delivered)
        /\ raised' = IF delivered THEN raised ELSE "smtp"
        /\ status' = IF delivered THEN "returned" ELSE "exception"
    /\ pc' = "done"
    /\ UNCHANGED << sftpOpen, transportOpen, listing, latest_zip, zipExists,
                    flatExists, flatfile, beneficiaries, underwriting_rules, xlsx,
                    xlsx_writes, error_message >>

\* self.log("Process completed successfully."); Send_Email.email(...): a
\* failing send is not caught; otherwise run() returns and the script ends
notify_success ==
    /\ pc = "email"
    /\ log' = Append(log, "Process completed successfully.")
    /\ \E delivered \in BOOLEAN :
        /\ mail' = email(mail, delivered)
        /\ raised' = IF delivered THEN raised ELSE "smtp"
        /\ status' = IF delivered THEN "returned" ELSE "exception"
    /\ pc' = "done"
    /\ UNCHANGED << sftpOpen, transportOpen, listing, latest_zip, zipExists,
                    flatExists, flatfile, beneficiaries, underwriting_rules, xlsx,
                    xlsx_writes, error_message >>

-----------------------------------------------------------------------------
(* Specifications *)

Next ==
    \/ connect_sftp_ok
    \/ connect_sftp_fail
    \/ download_listdir_fail
    \/ download_no_zip
    \/ download_stat_fail
    \/ download_get_fail
    \/ download_ok
    \/ close_session
    \/ extract_zip_fail
    \/ extract_zip_no_txt
    \/ extract_zip_ok
    \/ parse_flatfile_fail
    \/ parse_flatfile_ok
    \/ save_to_excel_fail
    \/ save_to_excel_ok
    \/ cleanup_ok
    \/ cleanup_fail
    \/ notify_success

\* one run of the script
Spec == Init /\ [][Next]_vars

\* parse_flatfile applied to every flat file of at most MaxLines lines drawn
\* from LineSet, from the state in which run() calls it
ParseInit ==
    /\ pc = "parse_flatfile"
    /\ status = "running"
    /\ sftpOpen = FALSE
    /\ transportOpen = FALSE
    /\ listing = << [ zip |-> TRUE, mtime |-> 1 ] >>
    /\ latest_zip = 1
    /\ zipExists = TRUE
    /\ flatExists = TRUE
    /\ flatfile \in SeqsUpTo(LineSet, MaxLines)
    /\ beneficiaries = << >>
    /\ underwriting_rules = << >>
    /\ xlsx = << >>
    /\ xlsx_writes = 0
    /\ mail = << >>
    /\ error_message = "None"
    /\ raised = "None"
    /\ log = << "Connected to SFTP successfully.", "Latest ZIP file detected",
                "Downloaded ZIP", "Flat file extracted" >>

ParseNext == parse_flatfile_ok

ParseSpec == ParseInit /\ [][ParseNext]_vars

-----------------------------------------------------------------------------
(* Vocabulary of the properties *)

Terminated == status # "running"

InLog(m) == \E i \in DOMAIN log : log[i] = m

\* the notifications of one kind that were handed to smtplib / delivered
Attempted(kind) == SelectSeq(mail, LAMBDA m : m.kind = kind)
Delivered(kind) == SelectSeq(mail, LAMBDA m : m.kind = kind /\ m.delivered)

SessionOpened == InLog("Connected to SFTP successfully.")
NoZipExit == InLog("No zip files found in remote /outbox folder.")
NoFlatFileExit == InLog("No flat file (.txt) found inside the ZIP.")
Saved == InLog("Extracted Type 2 and 3 datasets saved")
CleanupAttempted == InLog("Temporary files cleaned up.") \/ InLog("Cleanup warning")

Parsed == pc = "save_to_excel"

\* a line the parser classifies: long enough, discriminator d at index 9
HasType(line, d) == Len(line) >= 10 /\ CharAt(line, 9) = d

\* the end offset of the last field of each record shape
ShapeEnd(d) == IF d = "2" THEN 97 ELSE 247

\* a line of shape d that is too short to hold every field of the shape
ShortForShape(line, d) == HasType(line, d) /\ Len(line) < ShapeEnd(d)

\* the number of lines among the first k of the file that have type d
TypeCount(k, d) == Cardinality({ i \in 1..k : HasType(flatfile[i], d) })

-----------------------------------------------------------------------------
(* C1 - C6: resources and notifications on the exit paths of run() *)

\* C1: whenever the process has ended on a path on which connect_sftp opened
\* the session, both the SFTP client and the transport have been closed.
C1_SessionClosedOnEveryPath ==
    (Terminated /\ SessionOpened) => (~sftpOpen /\ ~transportOpen)

\* C2: whenever the process has ended, neither the downloaded archive nor
\* the extracted flat file exists any more.
C2_NoTransientFileLeft ==
    Terminated => (~zipExists /\ ~flatExists)

\* C3: whenever the process has ended with exit code 1, a failure
\* notification carrying the text of the underlying error was sent (handed
\* to the mail transport, delivered or not) and no spreadsheet was written.
C3_FatalErrorNotified ==
    (Terminated /\ exit_code(status) = 1) =>
        /\ \E i \in DOMAIN mail : mail[i].kind = "failure" /\ mail[i].text = raised
        /\ xlsx = << >>

\* C4: whenever the process has ended after a benign condition (no .zip in
\* the listing, no .txt in the archive), its exit code is 0, no notification
\* of either kind was sent and no spreadsheet was written.
C4_BenignExitIsSilentSuccess ==
    (Terminated /\ (NoZipExit \/ NoFlatFileExit)) =>
        /\ exit_code(status) = 0
        /\ mail = << >>
        /\ xlsx = << >>

\* C5: whenever the process has ended after the spreadsheet was saved and a
\* notification could not be sent, run() returned normally (no unhandled
\* error) and the spreadsheet is in place.
C5_SendFailureDoesNotCrash ==
    (Terminated /\ Saved /\ \E i \in DOMAIN mail : ~mail[i].delivered) =>
        /\ status = "returned"
        /\ xlsx = << Workbook(beneficiaries, underwriting_rules) >>

\* C6: whenever the process has ended after a deletion failed in cleanup,
\* run() was not aborted, exactly a failure notification and then a success
\* notification were sent, in that order, and the spreadsheet is as written.
C6_CleanupFailureThenSuccess ==
    (Terminated /\ InLog("Cleanup warning")) =>
        /\ status = "returned"
        /\ Len(mail) = 2
        /\ mail[1].kind = "failure" /\ mail[1].delivered
        /\ mail[2].kind = "success" /\ mail[2].delivered
        /\ xlsx = << Workbook(beneficiaries, underwriting_rules) >>

-----------------------------------------------------------------------------
(* C7 - C8: parse_flatfile *)

\* C7 as stated: a line that is too short for its record shape is skipped,
\* so the two collections together hold no more records than the file has
\* lines of type '2' or '3' that are long enough for their shape.
C7_ShortLineSkipped ==
    Parsed =>
        Len(beneficiaries) + Len(underwriting_rules) <=
            Cardinality({ i \in DOMAIN flatfile :
                            \E d \in {"2", "3"} :
                                HasType(flatfile[i], d) /\ ~ShortForShape(flatfile[i], d) })

\* the record that line k of the file, of type d, has produced
RecordOfLine(k, d) ==
    IF d = "2" THEN beneficiaries[TypeCount(k, "2")]
               ELSE underwriting_rules[TypeCount(k, "3")]

\* the last field of the record of a line of type d
LastField(r, d) == IF d = "2" THEN r.identificationNumber ELSE r.referenceNo

\* the start offset of that field
LastFieldStart(d) == IF d = "2" THEN 81 ELSE 229

\* C7 amended: a line that is too short for its record shape is not skipped
\* and does not crash the run; it adds one record to the collection of its
\* type, at the position of the line among the lines of that type, and none
\* to the other collection; the record's sequence number is the trimmed
\* first nine characters and its last field is empty when the line ends
\* before that field starts.
C7_ShortLineYieldsTruncatedRecord ==
    Parsed =>
        /\ status = "running"
        /\ Len(beneficiaries) = TypeCount(Len(flatfile), "2")
        /\ Len(underwriting_rules) = TypeCount(Len(flatfile), "3")
        /\ \A k \in DOMAIN flatfile : \A d \in {"2", "3"} :
              ShortForShape(flatfile[k], d) =>
                  /\ RecordOfLine(k, d).sequenceNumber = Strip(SubSeq(flatfile[k], 1, 9))
                  /\ Len(flatfile[k]) <= LastFieldStart(d) =>
                        LastField(RecordOfLine(k, d), d) = << >>

\* witness of C7: a parsed file with a short line of type '2' and a short
\* line of type '3'
C7_Witness ==
    /\ Parsed
    /\ \E k \in DOMAIN flatfile : ShortForShape(flatfile[k], "2") /\ Len(flatfile[k]) <= 81
    /\ \E k \in DOMAIN flatfile : ShortForShape(flatfile[k], "3") /\ Len(flatfile[k]) > 229

\* the lines of type d, in the order of the file
LinesOfType(d) == SelectSeq(flatfile, LAMBDA line : HasType(line, d))

\* C8: the beneficiaries are exactly the records of the lines of length >= 10
\* with '2' at index 9, the underwriting rules exactly those of the lines of
\* length >= 10 with '3' at index 9, each in the order of the file; any other
\* line contributes to neither collection.
C8_OneRecordPerQualifyingLine ==
    Parsed =>
        /\ beneficiaries =
              [ j \in 1..Len(LinesOfType("2")) |-> BeneficiaryRecord(LinesOfType("2")[j]) ]
        /\ underwriting_rules =
              [ j \in 1..Len(LinesOfType("3")) |-> UnderwritingRuleRecord(LinesOfType("3")[j]) ]

\* witness of C8: a parsed file with a line of each type and a line that
\* contributes to neither collection
C8_Witness ==
    /\ Parsed
    /\ Len(flatfile) = 3
    /\ Len(beneficiaries) = 1
    /\ Len(underwriting_rules) = 1

-----------------------------------------------------------------------------
(* C9: the selection of the latest archive *)

\* C9: once an archive has been selected, it is a .zip entry of the listing
\* whose modification time is the maximum over the .zip entries, and it is
\* the first such entry in listing order; and an archive is selected for
\* every listing that has a .zip entry and whose stat calls succeed.
C9_LatestZipIsFirstMaximum ==
    /\ InLog("Latest ZIP file detected") => latest_zip # 0
    /\ latest_zip # 0 =>
          /\ latest_zip \in DOMAIN listing
          /\ listing[latest_zip].zip
          /\ \A i \in DOMAIN listing :
                listing[i].zip =>
                    /\ listing[i].mtime <= listing[latest_zip].mtime
                    /\ i < latest_zip => listing[i].mtime < listing[latest_zip].mtime

\* witness of C9: an older archive is listed first and two archives share the
\* maximum; the earlier of the two is selected
C9_Witness ==
    /\ latest_zip # 0
    /\ \E i \in DOMAIN listing :
          i < latest_zip /\ listing[i].zip /\ listing[i].mtime < listing[latest_zip].mtime
    /\ \E i \in DOMAIN listing :
          i > latest_zip /\ listing[i].zip /\ listing[i].mtime = listing[latest_zip].mtime

-----------------------------------------------------------------------------
(* C10: the success notification and the spreadsheet *)

C10_State ==
    /\ Len(Attempted("success")) <= 1
    /\ Attempted("success") # << >> =>
          /\ ~sftpOpen /\ ~transportOpen
          /\ Saved
          /\ xlsx = << Workbook(beneficiaries, underwriting_rules) >>
          /\ CleanupAttempted
    /\ (NoZipExit \/ NoFlatFileExit \/ InLog("SFTP Connection failed")
            \/ InLog("Failed to download ZIP")) => Attempted("success") = << >>
    /\ xlsx_writes <= 1

\* C10: the success notification is sent at most once, and only after the
\* session was closed, the spreadsheet written and cleanup attempted; a run
\* that ends early sends none; the spreadsheet is written at most once and,
\* once written, is not modified.
C10_SuccessOnceAfterEverything ==
    /\ []C10_State
    /\ [][xlsx # << >> => xlsx' = xlsx]_vars

\* witness of C10: the run ended with the success notification delivered
C10_Witness ==
    /\ status = "returned"
    /\ Delivered("success") # << >>
    /\ xlsx # << >>

=============================================================================
